---- MODULE Spec2Model ----
(***************************************************************************)
(* Model of rlang's growable array (src/rlang/dyn-array.c): the control    *)
(* struct `struct r_dyn_array`, the shelter list that keeps the struct and *)
(* the backing vector alive, and the operations r_new_dyn_vector,          *)
(* r_new_dyn_array, r_arr_push_back and r_arr_resize.                       *)
(*                                                                         *)
(* r_ssize is modelled as a two's complement integer with the range       *)
(* R_SSIZE_MIN..R_SSIZE_MAX.                                               *)
(* Vector storage is modelled byte by byte; a byte is "U" while it has     *)
(* never been written (R does not initialise atomic vectors).              *)
(***************************************************************************)
EXTENDS Integers, Sequences, FiniteSets, TLC

\* ------------------------------------------------------------------ bounds
R_SSIZE_MAX == 7       \* largest r_ssize of the model (a 4-bit r_ssize)
MaxCount == 5          \* pushes are explored while count and the push history are below it

R_SSIZE_MIN == 0 - R_SSIZE_MAX - 1

R_DYN_ARRAY_GROWTH_FACTOR == 2

InRange(x) == R_SSIZE_MIN <= x /\ x <= R_SSIZE_MAX
\* two's complement wrap-around of a mathematical integer to r_ssize
Wrap(x) == ((x - R_SSIZE_MIN) % (R_SSIZE_MAX - R_SSIZE_MIN + 1)) + R_SSIZE_MIN

\* ------------------------------------------------------------------- types
Types == {"raw", "integer"}
Elts  == {"1"}                      \* byte patterns a caller may push
Uninit == "U"
ZeroByte == "0"

\* r_vec_elt_sizeof0(): sizeof(r_byte) = 1, sizeof(int) = 4
r_vec_elt_sizeof0(type) == IF type = "raw" THEN 1 ELSE 4

\* r_ssize_min()
r_ssize_min(x, y) == IF x < y THEN x ELSE y

\* r_ssize_mult(): the product, or "overflow" when it does not fit r_ssize
r_ssize_mult_ok(x, y) == InRange(x * y)

\* ------------------------------------------------------------------- state
VARIABLES
  attribs_dyn_array,  \* the static class attribute: "NULL" until initialised
  precious,           \* objects handed to r_preserve_global()
  arr,                \* the control struct the caller holds (*p_arr)
  shelter,            \* the shelter list of that array
  vec,                \* the backing vector object held in the shelter
  proc,               \* "running", or "aborted" after a trap or a crash
  pstack,             \* objects dyn-array.c left on the protection stack (KEEP)
  client_keeps,       \* the client protects p_arr->shelter (below the calls)
  reclaimed,          \* objects of the array a collection has reclaimed
  sxp,                \* the R objects the attribute helpers of sexp.c work on
  last,               \* what the last call was and how it ended
  fresh,              \* r_arr_resize was not called by the client since create
  failed,             \* while fresh: a push ended in an error or killed the process
  hist,               \* while fresh and not failed: the p_elt of each push, in order
  initcap             \* while fresh: the capacity the array was created with

vars == <<attribs_dyn_array, precious, arr, shelter, vec, proc,
          pstack, client_keeps, reclaimed, sxp,
          last, fresh, failed, hist, initcap>>

NullArr == [shelter |-> "NULL", count |-> 0, capacity |-> 0,
            growth_factor |-> 0, v_data |-> "NULL", type |-> "NULL",
            elt_byte_size |-> 0]
NullShelter == [id |-> "NULL", attrib |-> "NULL", marked |-> FALSE,
                slot0 |-> "NULL", slot1 |-> "NULL"]
NullVec == [id |-> "NULL", type |-> "NULL", data |-> <<>>]

\* Record of a call: the operation and its arguments (type, n = capacity,
\* sz = element size, elt = p_elt), how it ended (err), the number of
\* allocator calls it made, the sizes it asked the vector allocator for,
\* whether a product it computed exceeded r_ssize (ovf), whether it wrote
\* outside the backing storage (oob), and the protections it still held when
\* control left it (held).
NoCall == [op |-> "none", err |-> "none", allocs |-> 0, asked |-> {},
           ovf |-> FALSE, oob |-> FALSE, held |-> 0,
           type |-> "NULL", n |-> 0, sz |-> 0, elt |-> "NULL"]

\* The part of the state an operation of dyn-array.c works on.
World == [arr |-> arr, shelter |-> shelter, vec |-> vec]

\* ------------------------------------------------------- vector primitives
Fill(n, b) == [i \in 1..n |-> b]

\* bytes of one pushed element: p_elt, or zeroes for a NULL p_elt
EltBytes(p_elt, sz) == Fill(sz, IF p_elt = "NULL" THEN ZeroByte ELSE p_elt)

\* number of elements of a vector object
r_length(v) == Len(v.data) \div r_vec_elt_sizeof0(v.type)

OtherId(id) == IF id = "vecA" THEN "vecB" ELSE "vecA"

\* r_new_vector(type, n): a fresh vector of n elements, content not
\* initialised; the host refuses it (R error) when memory is exhausted.
r_new_vector(id, type, n) ==
  [id |-> id, type |-> type, data |-> Fill(n * r_vec_elt_sizeof0(type), Uninit)]

\* r_vec_resize0(type, x, size): x itself when it already has `size`
\* elements; otherwise a vector of `size` elements holding the first
\* min(old, size) elements of x, relocated or not, or an allocation error.
\* A negative size is refused by the host allocator.
r_vec_resize0(type, x, size) ==
  IF size < 0 THEN {[err |-> "AllocError", vec |-> x, allocs |-> 1]}
  ELSE IF size = r_length(x) THEN {[err |-> "none", vec |-> x, allocs |-> 0]}
  ELSE LET nbytes == size * r_vec_elt_sizeof0(type)
           data == [i \in 1..nbytes |->
                      IF i <= Len(x.data) THEN x.data[i] ELSE Uninit]
       IN {[err |-> "AllocError", vec |-> x, allocs |-> 1]}
          \cup {[err |-> "none", allocs |-> 1,
                 vec |-> [id |-> id, type |-> type, data |-> data]]
                : id \in {x.id, OtherId(x.id)}}

\* r_vec_deref0(): the address of the storage of a vector object
r_vec_deref0(v) == v.id

\* r_arr_ptr_back(): byte offset of the last element, (count - 1) elements in
BackOffset(a) == (a.count - 1) * a.elt_byte_size

\* whether the elt_byte_size bytes at the element index i lie inside the
\* storage v_data points to
InBuffer(a, v, i) ==
  /\ a.v_data = v.id /\ v.id # "NULL"
  /\ i >= 0
  /\ (i + 1) * a.elt_byte_size <= Len(v.data)

\* the bytes of element i (only meaningful when InBuffer)
EltAt(a, v, i) == SubSeq(v.data, i * a.elt_byte_size + 1, (i + 1) * a.elt_byte_size)

\* --------------------------------------------------------------- outcomes
\* An operation maps a world to the set of ways it can end.  `w` is the
\* world it leaves behind; err is "none" on a normal return and the R error
\* otherwise (control then leaves by longjmp); proc is "aborted" when the
\* process died (overflow trap, crash after an out-of-bounds write).
Outcome(w, err) ==
  [w |-> w, err |-> err, proc |-> "running", allocs |-> 0, asked |-> {},
   ovf |-> FALSE, oob |-> FALSE, held |-> 0]

\* ------------------------------------------------------------ r_arr_resize
r_arr_resize_early(w, capacity) ==
  LET a == w.arr
      product == a.elt_byte_size * capacity
      ovf == ~InRange(product)
      done(r, size) ==
        LET early == [a EXCEPT !.count = r_ssize_min(a.count, capacity),
                               !.capacity = capacity]
        IN IF r.err # "none"
           THEN [Outcome([w EXCEPT !.arr = early], r.err) EXCEPT
                   !.allocs = r.allocs, !.asked = {size}, !.ovf = ovf]
           ELSE [Outcome([arr |-> [early EXCEPT !.v_data = r_vec_deref0(r.vec)],
                          shelter |-> [w.shelter EXCEPT !.slot1 = r.vec.id],
                          vec |-> r.vec], "none") EXCEPT
                   !.allocs = r.allocs, !.asked = {size}, !.ovf = ovf]
  IN (IF ovf THEN {[Outcome(w, "none") EXCEPT !.proc = "aborted", !.ovf = TRUE]}
             ELSE {})
     \cup {done(r, Wrap(product)) : r \in r_vec_resize0(a.type, w.vec, Wrap(product))}

r_arr_resize_stale(w, capacity) ==
  LET a == w.arr
      product == a.elt_byte_size * capacity
      ovf == ~InRange(product)
      done(r, size) ==
        IF r.err # "none"
        THEN [Outcome(w, r.err) EXCEPT
                !.allocs = r.allocs, !.asked = {size}, !.ovf = ovf]
        ELSE [Outcome([arr |-> [a EXCEPT
                                  !.count = r_ssize_min(a.count, capacity),
                                  !.capacity = capacity],
                       shelter |-> [w.shelter EXCEPT !.slot1 = r.vec.id],
                       vec |-> r.vec], "none") EXCEPT
                !.allocs = r.allocs, !.asked = {size}, !.ovf = ovf]
  IN (IF ovf THEN {[Outcome(w, "none") EXCEPT !.proc = "aborted", !.ovf = TRUE]}
             ELSE {})
     \cup {done(r, Wrap(product)) : r \in r_vec_resize0(a.type, w.vec, Wrap(product))}

r_arr_resize_nopoke(w, capacity) ==
  LET a == w.arr
      product == a.elt_byte_size * capacity
      ovf == ~InRange(product)
      done(r, size) ==
        IF r.err # "none"
        THEN [Outcome(w, r.err) EXCEPT
                !.allocs = r.allocs, !.asked = {size}, !.ovf = ovf]
        ELSE [Outcome([arr |-> [a EXCEPT
                                  !.count = r_ssize_min(a.count, capacity),
                                  !.capacity = capacity,
                                  !.v_data = r_vec_deref0(r.vec)],
                       shelter |-> w.shelter,
                       vec |-> r.vec], "none") EXCEPT
                !.allocs = r.allocs, !.asked = {size}, !.ovf = ovf]
  IN (IF ovf THEN {[Outcome(w, "none") EXCEPT !.proc = "aborted", !.ovf = TRUE]}
             ELSE {})
     \cup {done(r, Wrap(product)) : r \in r_vec_resize0(a.type, w.vec, Wrap(product))}

\* elt_byte_size * capacity is an unchecked r_ssize product: when it does not
\* fit, the behaviour is undefined; the build either wraps it or traps.
r_arr_resize(w, capacity) ==
  LET a == w.arr
      product == a.elt_byte_size * capacity
      ovf == ~InRange(product)
      done(r, size) ==
        IF r.err # "none"
        THEN [Outcome(w, r.err) EXCEPT
                !.allocs = r.allocs, !.asked = {size}, !.ovf = ovf]
        ELSE [Outcome([arr |-> [a EXCEPT
                                  !.count = r_ssize_min(a.count, capacity),
                                  !.capacity = capacity,
                                  !.v_data = r_vec_deref0(r.vec)],
                       shelter |-> [w.shelter EXCEPT !.slot1 = r.vec.id],
                       vec |-> r.vec], "none") EXCEPT
                !.allocs = r.allocs, !.asked = {size}, !.ovf = ovf]
  IN (IF ovf THEN {[Outcome(w, "none") EXCEPT !.proc = "aborted", !.ovf = TRUE]}
             ELSE {})
     \cup {done(r, Wrap(product)) : r \in r_vec_resize0(a.type, w.vec, Wrap(product))}

\* --------------------------------------------------------- r_arr_push_back
\* memcpy / memset of elt_byte_size bytes at r_arr_ptr_back().  A write
\* outside the storage is undefined: it either goes unnoticed (the array
\* looks untouched) or kills the process.
WriteBack(o, p_elt) ==
  LET a == o.w.arr
      v == o.w.vec
      off == BackOffset(a)
  IN IF InBuffer(a, v, a.count - 1)
     THEN {[o EXCEPT !.w.vec.data =
              [i \in 1..Len(v.data) |->
                 IF off < i /\ i <= off + a.elt_byte_size
                 THEN EltBytes(p_elt, a.elt_byte_size)[i - off]
                 ELSE v.data[i]]]}
     ELSE {[o EXCEPT !.oob = TRUE], [o EXCEPT !.oob = TRUE, !.proc = "aborted"]}

r_arr_push_back_eager(w, p_elt) ==
  LET a == w.arr
      \* ++p_arr->count: undefined at R_SSIZE_MAX (wraps or traps)
      incovf == a.count = R_SSIZE_MAX
      a1 == [a EXCEPT !.count = Wrap(a.count + 1)]
      w1 == [w EXCEPT !.arr = a1]
      grown ==
        IF a1.count >= a1.capacity
        THEN IF ~r_ssize_mult_ok(a1.capacity, a1.growth_factor)
             THEN {[Outcome(w1, "OverflowError") EXCEPT !.ovf = TRUE]}
             ELSE r_arr_resize(w1, a1.capacity * a1.growth_factor)
        ELSE {Outcome(w1, "none")}
  IN (IF incovf THEN {[Outcome(w, "none") EXCEPT !.proc = "aborted"]} ELSE {})
     \cup UNION {IF o.err = "none" /\ o.proc = "running"
                 THEN WriteBack(o, p_elt) ELSE {o} : o \in grown}

r_arr_push_back(w, p_elt) ==
  LET a == w.arr
      \* ++p_arr->count: undefined at R_SSIZE_MAX (wraps or traps)
      incovf == a.count = R_SSIZE_MAX
      a1 == [a EXCEPT !.count = Wrap(a.count + 1)]
      w1 == [w EXCEPT !.arr = a1]
      grown ==
        IF a1.count > a1.capacity
        THEN IF ~r_ssize_mult_ok(a1.capacity, a1.growth_factor)
             THEN {[Outcome(w1, "OverflowError") EXCEPT !.ovf = TRUE]}
             ELSE r_arr_resize(w1, a1.capacity * a1.growth_factor)
        ELSE {Outcome(w1, "none")}
  IN (IF incovf THEN {[Outcome(w, "none") EXCEPT !.proc = "aborted"]} ELSE {})
     \cup UNION {IF o.err = "none" /\ o.proc = "running"
                 THEN WriteBack(o, p_elt) ELSE {o} : o \in grown}

\* -------------------------------------------------------- r_new_dyn_vector
r_new_dyn_vector_nofree(w, type, capacity) ==
  LET sh == [id |-> "shelter", attrib |-> attribs_dyn_array, marked |-> TRUE,
             slot0 |-> "vec_raw", slot1 |-> "vecA"]
      vec_sexp == r_new_vector("vecA", type, capacity)
      p_vec == [shelter |-> sh.id, count |-> 0, capacity |-> capacity,
                growth_factor |-> R_DYN_ARRAY_GROWTH_FACTOR,
                v_data |-> r_vec_deref0(vec_sexp), type |-> type,
                elt_byte_size |-> r_vec_elt_sizeof0(type)]
  IN { \* r_new_list(2) fails: nothing was protected yet
       [Outcome(w, "AllocError") EXCEPT !.allocs = 1],
       \* r_new_raw() fails: the shelter is still on the protection stack
       [Outcome(w, "AllocError") EXCEPT !.allocs = 2, !.held = 1],
       \* r_new_vector() fails
       [Outcome(w, "AllocError") EXCEPT !.allocs = 3, !.held = 1,
                                        !.asked = {capacity}],
       [Outcome([arr |-> p_vec, shelter |-> sh, vec |-> vec_sexp], "none")
          EXCEPT !.allocs = 3, !.asked = {capacity}, !.held = 1] }

r_new_dyn_vector_badinit(w, type, capacity) ==
  LET sh == [id |-> "shelter", attrib |-> attribs_dyn_array, marked |-> TRUE,
             slot0 |-> "vec_raw", slot1 |-> "vecA"]
      vec_sexp == r_new_vector("vecA", type, capacity)
      p_vec == [shelter |-> sh.id, count |-> capacity, capacity |-> capacity,
                growth_factor |-> R_DYN_ARRAY_GROWTH_FACTOR,
                v_data |-> r_vec_deref0(vec_sexp), type |-> type,
                elt_byte_size |-> r_vec_elt_sizeof0(type)]
  IN { \* r_new_list(2) fails: nothing was protected yet
       [Outcome(w, "AllocError") EXCEPT !.allocs = 1],
       \* r_new_raw() fails: the shelter is still on the protection stack
       [Outcome(w, "AllocError") EXCEPT !.allocs = 2, !.held = 1],
       \* r_new_vector() fails
       [Outcome(w, "AllocError") EXCEPT !.allocs = 3, !.held = 1,
                                        !.asked = {capacity}],
       [Outcome([arr |-> p_vec, shelter |-> sh, vec |-> vec_sexp], "none")
          EXCEPT !.allocs = 3, !.asked = {capacity}] }

r_new_dyn_vector_notag(w, type, capacity) ==
  LET sh == [id |-> "shelter", attrib |-> "NULL", marked |-> TRUE,
             slot0 |-> "vec_raw", slot1 |-> "vecA"]
      vec_sexp == r_new_vector("vecA", type, capacity)
      p_vec == [shelter |-> sh.id, count |-> 0, capacity |-> capacity,
                growth_factor |-> R_DYN_ARRAY_GROWTH_FACTOR,
                v_data |-> r_vec_deref0(vec_sexp), type |-> type,
                elt_byte_size |-> r_vec_elt_sizeof0(type)]
  IN { \* r_new_list(2) fails: nothing was protected yet
       [Outcome(w, "AllocError") EXCEPT !.allocs = 1],
       \* r_new_raw() fails: the shelter is still on the protection stack
       [Outcome(w, "AllocError") EXCEPT !.allocs = 2, !.held = 1],
       \* r_new_vector() fails
       [Outcome(w, "AllocError") EXCEPT !.allocs = 3, !.held = 1,
                                        !.asked = {capacity}],
       [Outcome([arr |-> p_vec, shelter |-> sh, vec |-> vec_sexp], "none")
          EXCEPT !.allocs = 3, !.asked = {capacity}] }

r_new_dyn_vector(w, type, capacity) ==
  LET sh == [id |-> "shelter", attrib |-> attribs_dyn_array, marked |-> TRUE,
             slot0 |-> "vec_raw", slot1 |-> "vecA"]
      vec_sexp == r_new_vector("vecA", type, capacity)
      p_vec == [shelter |-> sh.id, count |-> 0, capacity |-> capacity,
                growth_factor |-> R_DYN_ARRAY_GROWTH_FACTOR,
                v_data |-> r_vec_deref0(vec_sexp), type |-> type,
                elt_byte_size |-> r_vec_elt_sizeof0(type)]
  IN { \* r_new_list(2) fails: nothing was protected yet
       [Outcome(w, "AllocError") EXCEPT !.allocs = 1],
       \* r_new_raw() fails: the shelter is still on the protection stack
       [Outcome(w, "AllocError") EXCEPT !.allocs = 2, !.held = 1],
       \* r_new_vector() fails
       [Outcome(w, "AllocError") EXCEPT !.allocs = 3, !.held = 1,
                                        !.asked = {capacity}],
       [Outcome([arr |-> p_vec, shelter |-> sh, vec |-> vec_sexp], "none")
          EXCEPT !.allocs = 3, !.asked = {capacity}] }

\* --------------------------------------------------------- r_new_dyn_array
r_new_dyn_array_unchecked(w, elt_byte_size, capacity) ==
  {[o EXCEPT !.ovf = ~InRange(capacity * elt_byte_size)] :
     o \in r_new_dyn_vector(w, "raw", Wrap(capacity * elt_byte_size))}

r_new_dyn_array(w, elt_byte_size, capacity) ==
  IF ~r_ssize_mult_ok(capacity, elt_byte_size)
  THEN {[Outcome(w, "OverflowError") EXCEPT !.ovf = TRUE]}
  ELSE r_new_dyn_vector(w, "raw", capacity * elt_byte_size)

\* ------------------------------------------------------------------ sexp.c
MaxObjs == 3           \* R objects explored by the attribute helpers

Syms == {"class", "names", "dim"}      \* R_ClassSymbol, R_NamesSymbol, another
AttrValues == {"nil", "a"}             \* R_NilValue and a value

NoAttrs == [sym \in Syms |-> "nil"]

\* sxp.heap[i] holds the attributes of object i; the other fields record the
\* last helper call: its name, its argument x, sym and attr, the object it
\* returned (0: none) and how it ended.
NoSxpCall == [heap |-> <<NoAttrs>>, op |-> "none", x |-> 0, sym |-> "none",
              attr |-> "nil", ret |-> 0, err |-> "none"]

\* Rf_setAttrib(x, sym, attr): writes the attribute of x itself
Rf_setAttrib(heap, x, sym, attr) == [heap EXCEPT ![x][sym] = attr]

\* Rf_shallow_duplicate(x): a new object with the attributes of x
Rf_shallow_duplicate(heap, x) == Append(heap, heap[x])

\* a helper call ends with a heap, a protection stack and a returned object
mut_attr(heap, ps, x, sym, attr) ==
  {[heap |-> Rf_setAttrib(heap, x, sym, attr), ps |-> ps, ret |-> 0,
    err |-> "none"]}

mut_class(heap, ps, x, classes) ==
  {[heap |-> Rf_setAttrib(heap, x, "class", classes), ps |-> ps, ret |-> 0,
    err |-> "none"]}

mut_names(heap, ps, x, nms) ==
  {[heap |-> Rf_setAttrib(heap, x, "names", nms), ps |-> ps, ret |-> 0,
    err |-> "none"]}

set_attr_inplace(heap, ps, x, sym, attr) ==
  {[heap |-> heap, ps |-> ps, ret |-> 0, err |-> "AllocError"]}
  \cup {[heap |-> o.heap, ps |-> o.ps, ret |-> x, err |-> o.err]
         : o \in mut_attr(heap, ps, x, sym, attr)}

\* x = PROTECT(Rf_shallow_duplicate(x)); mut_attr(x, sym, attr);
\* UNPROTECT(1); return x;   Rf_shallow_duplicate may fail to allocate.
set_attr(heap, ps, x, sym, attr) ==
  LET dup == Rf_shallow_duplicate(heap, x)
      y == Len(dup)
      ps1 == Append(ps, y)
  IN {[heap |-> heap, ps |-> ps, ret |-> 0, err |-> "AllocError"]}
     \cup {[heap |-> o.heap, ps |-> SubSeq(o.ps, 1, Len(o.ps) - 1), ret |-> y,
             err |-> o.err]
            : o \in mut_attr(dup, ps1, y, sym, attr)}

set_class(heap, ps, x, classes) == set_attr(heap, ps, x, "class", classes)

SxpDone(o, op, x, sym, attr) ==
  /\ sxp' = [heap |-> o.heap, op |-> op, x |-> x, sym |-> sym, attr |-> attr,
             ret |-> o.ret, err |-> o.err]
  /\ pstack' = o.ps
  /\ UNCHANGED <<attribs_dyn_array, precious, arr, shelter, vec, proc,
                 client_keeps, reclaimed, last, fresh, failed, hist, initcap>>

MutAttr ==
  \E x \in 1..Len(sxp.heap), sym \in Syms, attr \in AttrValues :
    \E o \in mut_attr(sxp.heap, pstack, x, sym, attr) :
      SxpDone(o, "mut_attr", x, sym, attr)

MutClass ==
  \E x \in 1..Len(sxp.heap), classes \in AttrValues :
    \E o \in mut_class(sxp.heap, pstack, x, classes) :
      SxpDone(o, "mut_class", x, "class", classes)

MutNames ==
  \E x \in 1..Len(sxp.heap), nms \in AttrValues :
    \E o \in mut_names(sxp.heap, pstack, x, nms) :
      SxpDone(o, "mut_names", x, "names", nms)

SetAttr ==
  /\ Len(sxp.heap) < MaxObjs
  /\ \E x \in 1..Len(sxp.heap), sym \in Syms, attr \in AttrValues :
       \E o \in set_attr(sxp.heap, pstack, x, sym, attr) :
         SxpDone(o, "set_attr", x, sym, attr)

SetClass ==
  /\ Len(sxp.heap) < MaxObjs
  /\ \E x \in 1..Len(sxp.heap), classes \in AttrValues :
       \E o \in set_class(sxp.heap, pstack, x, classes) :
         SxpDone(o, "set_class", x, "class", classes)

\* ------------------------------------------------------------------ actions
Init ==
  /\ attribs_dyn_array = "NULL"
  /\ precious = {}
  /\ arr = NullArr
  /\ shelter = NullShelter
  /\ vec = NullVec
  /\ proc = "running"
  /\ pstack = <<>>
  /\ client_keeps = FALSE
  /\ reclaimed = {}
  /\ sxp = NoSxpCall
  /\ last = NoCall
  /\ hist = <<>>
  /\ fresh = FALSE
  /\ failed = FALSE
  /\ initcap = 0

Exists == arr.shelter # "NULL"

\* only pushes that returned have been made on the array since create
Clean == Exists /\ fresh /\ ~failed /\ proc = "running"

Call(o, op, type, n, sz, elt) ==
  [op |-> op, err |-> o.err, allocs |-> o.allocs, asked |-> o.asked,
   ovf |-> o.ovf, oob |-> o.oob, held |-> o.held,
   type |-> type, n |-> n, sz |-> sz, elt |-> elt]

\* KEEP(shelter) entries a call leaves on the protection stack.  A call that
\* ends in an R error leaves by longjmp, and the host then resets the stack
\* to its depth at the context that catches the error: what the call itself
\* had protected is dropped.
Leftover(o) ==
  IF o.err = "none" THEN [i \in 1..o.held |-> "shelter"] ELSE <<>>

Commit(o) ==
  /\ arr' = o.w.arr
  /\ shelter' = o.w.shelter
  /\ vec' = o.w.vec
  /\ proc' = o.proc
  /\ pstack' = pstack \o Leftover(o)
  /\ UNCHANGED <<client_keeps, reclaimed, sxp>>

\* r_init_library_dyn_array()
InitLibrary ==
  /\ proc = "running"
  /\ attribs_dyn_array' = "rlang_dyn_array"
  /\ precious' = precious \cup {"attribs_dyn_array"}
  /\ last' = Call(Outcome(World, "none"), "init_library", "NULL", 0, 0, "NULL")
  /\ UNCHANGED <<arr, shelter, vec, proc, pstack, client_keeps, reclaimed, sxp,
                 fresh, failed, hist, initcap>>

Created(o, capacity) ==
  IF o.err = "none"
  THEN hist' = <<>> /\ fresh' = TRUE /\ failed' = FALSE /\ initcap' = capacity
  ELSE UNCHANGED <<hist, fresh, failed, initcap>>

\* p_arr = r_new_dyn_vector(type, capacity).  The model follows one array:
\* a client creates it (retrying after a failure) and then pushes and resizes.
NewDynVector ==
  /\ proc = "running"
  /\ ~Exists
  /\ \E type \in Types, capacity \in 0..R_SSIZE_MAX :
       \E o \in r_new_dyn_vector(World, type, capacity) :
         /\ Commit(o)
         /\ last' = Call(o, "new_dyn_vector", type, capacity, 0, "NULL")
         /\ Created(o, capacity)
  /\ UNCHANGED <<attribs_dyn_array, precious>>

EltSizes == 1..4

\* p_arr = r_new_dyn_array(elt_byte_size, capacity)
NewDynArray ==
  /\ proc = "running"
  /\ ~Exists
  /\ \E elt_byte_size \in EltSizes, capacity \in 0..R_SSIZE_MAX :
       \E o \in r_new_dyn_array(World, elt_byte_size, capacity) :
         /\ Commit(o)
         /\ last' = Call(o, "new_dyn_array", "raw", capacity, elt_byte_size, "NULL")
         /\ Created(o, o.w.arr.capacity)
  /\ UNCHANGED <<attribs_dyn_array, precious>>

\* r_arr_push_back(p_arr, p_elt)
PushBack ==
  /\ proc = "running"
  /\ Exists /\ reclaimed = {}
  /\ arr.count < MaxCount /\ Len(hist) < MaxCount
  /\ \E p_elt \in Elts \cup {"NULL"} :
       \E o \in r_arr_push_back(World, p_elt) :
         /\ Commit(o)
         /\ last' = Call(o, "push_back", "NULL", 0, 0, p_elt)
         /\ failed' = (fresh /\ (failed \/ o.err # "none" \/ o.proc # "running"))
         /\ hist' = IF fresh /\ ~failed' THEN Append(hist, p_elt) ELSE <<>>
  /\ UNCHANGED <<attribs_dyn_array, precious, fresh, initcap>>

\* r_arr_resize(p_arr, capacity), called by the user of the array
Resize ==
  /\ proc = "running"
  /\ Exists /\ reclaimed = {}
  /\ \E capacity \in 0..R_SSIZE_MAX :
       \E o \in r_arr_resize(World, capacity) :
         /\ Commit(o)
         /\ last' = Call(o, "resize", "NULL", capacity, 0, "NULL")
  /\ fresh' = FALSE
  /\ failed' = FALSE
  /\ hist' = <<>>
  /\ initcap' = 0
  /\ UNCHANGED <<attribs_dyn_array, precious>>

Next == InitLibrary \/ NewDynVector \/ NewDynArray \/ PushBack \/ Resize

Spec == Init /\ [][Next]_vars

\* ------------------------------------------------------ garbage collection
\* The roots of the host collector: the precious list, the protection stack
\* and what the client protects.  Only attribs_dyn_array is preserved
\* (r_preserve_global); the shelter is on the stack from KEEP to FREE(1).
Range(f) == {f[i] : i \in DOMAIN f}

Roots ==
  precious \cup Range(pstack) \cup (IF client_keeps THEN {arr.shelter} ELSE {})

\* objects the collector reaches: the roots, and the two slots of a reached
\* shelter list
Reachable ==
  Roots \cup (IF shelter.id \in Roots THEN {shelter.slot0, shelter.slot1} ELSE {})

\* what the control struct pointer of the client depends on: the shelter, the
\* raw cell holding the struct (r_raw_deref) and the storage behind v_data
Used == {arr.shelter, "vec_raw", arr.v_data}

\* the client does KEEP(p_arr->shelter) after create
Protect ==
  /\ proc = "running"
  /\ Exists /\ reclaimed = {} /\ ~client_keeps
  /\ last.op \in {"new_dyn_vector", "new_dyn_array"}
  /\ client_keeps' = TRUE
  /\ UNCHANGED <<attribs_dyn_array, precious, arr, shelter, vec, proc, pstack,
                 reclaimed, sxp, last, fresh, failed, hist, initcap>>

\* a collection between two operations: what is not reachable is reclaimed
Collect ==
  /\ proc = "running"
  /\ Exists /\ reclaimed = {}
  /\ reclaimed' = Used \ Reachable
  /\ last' = [NoCall EXCEPT !.op = "collect"]
  /\ UNCHANGED <<attribs_dyn_array, precious, arr, shelter, vec, proc, pstack,
                 client_keeps, sxp, fresh, failed, hist, initcap>>

NextSexp == MutAttr \/ MutClass \/ MutNames \/ SetAttr \/ SetClass

SpecSexp == Init /\ [][NextSexp]_vars

NextGC == Next \/ Protect \/ Collect

SpecGC == Init /\ [][NextGC]_vars

\* ------------------------------------------------------------------ claims
Min(x, y) == IF x < y THEN x ELSE y
Returned(op) == last.op = op /\ last.err = "none" /\ proc = "running"

\* C1: in every reachable state of an array, also after a call that ended in
\* an overflow or allocation error, 0 <= count <= capacity.
C1_CountWithinCapacity ==
  Exists => (0 <= arr.count /\ arr.count <= arr.capacity)

\* C2: after k pushes that returned, made on a freshly created array of any
\* initial capacity (0 included) with no resize call in between, count = k.
C2_CountEqualsPushes ==
  Clean => arr.count = Len(hist)

\* C3: on an array that was only pushed to since create, the capacity after
\* each push is initial_capacity * 2^j for some j, is at least count, is not
\* smaller than before the push, and a push that changes it doubles it.
C3_CapacityGrowth ==
  [][(last'.op = "push_back" /\ fresh' /\ proc' = "running") =>
       /\ \E j \in 0..R_SSIZE_MAX : arr'.capacity = initcap' * 2^j
       /\ arr'.capacity >= arr'.count
       /\ arr'.capacity >= arr.capacity
       /\ (arr'.capacity # arr.capacity =>
             arr'.capacity = arr.capacity * R_DYN_ARRAY_GROWTH_FACTOR)]_vars

\* C4: a push that fails (OverflowError or allocation error) leaves the
\* control struct, the shelter and the stored bytes as they were.
C4_FailedPushChangesNothing ==
  [][(last'.op = "push_back" /\ last'.err # "none") =>
       (arr' = arr /\ shelter' = shelter /\ vec' = vec)]_vars

\* C5: a direct r_arr_resize() call in which the vector allocator fails
\* leaves count, capacity, v_data and the vector in slot 1 unchanged.
C5_FailedResizeChangesNothing ==
  [][(last'.op = "resize" /\ last'.err = "AllocError") =>
       (arr' = arr /\ shelter' = shelter /\ vec' = vec)]_vars

C5_Witness ==
  /\ last.op = "resize" /\ last.err = "AllocError" /\ proc = "running"
  /\ arr.count > 0 /\ last.n # arr.capacity /\ last.n < arr.count

\* C6: a resize to n that returns sets capacity = n and
\* count = min(old count, n), and every element below min(old count, n)
\* holds the bytes it held before.
C6_ResizeResult ==
  [][(last'.op = "resize" /\ last'.err = "none" /\ proc' = "running") =>
       LET n == last'.n
           m == Min(arr.count, n)
       IN /\ arr'.capacity = n
          /\ arr'.count = m
          /\ \A i \in 0..(m - 1) :
               InBuffer(arr, vec, i) =>
                 /\ InBuffer(arr', vec', i)
                 /\ EltAt(arr', vec', i) = EltAt(arr, vec, i)]_vars

\* C7: after a push that returned, the element at index count - 1 holds the
\* elt_byte_size bytes of the pushed value, or zero bytes for a NULL p_elt.
C7_PushWritesLastSlot ==
  Returned("push_back") =>
    /\ InBuffer(arr, vec, arr.count - 1)
    /\ EltAt(arr, vec, arr.count - 1) = EltBytes(last.elt, arr.elt_byte_size)

\* C8: after pushes v1..vk that returned, made on a freshly created array
\* with no resize call, element i - 1 holds vi for every i in 1..k.
C8_PushedValuesInOrder ==
  Clean =>
    \A i \in 1..Len(hist) :
      /\ InBuffer(arr, vec, i - 1)
      /\ EltAt(arr, vec, i - 1) = EltBytes(hist[i], arr.elt_byte_size)

\* C9: whenever a product of a capacity and elt_byte_size (or the growth
\* factor) computed by a call exceeds R_SSIZE_MAX, the call fails with
\* OverflowError; no wrapped product reaches the allocator or capacity.
C9_ProductsAreChecked ==
  last.ovf => (last.err = "OverflowError" /\ last.asked = {})

\* C10: r_new_dyn_array(elt_byte_size, capacity) whose product exceeds
\* R_SSIZE_MAX fails with OverflowError before anything is allocated or
\* protected: no shelter, no control struct, no backing vector.
C10_ByteArrayOverflowBuildsNothing ==
  (last.op = "new_dyn_array" /\ last.n * last.sz > R_SSIZE_MAX) =>
    /\ last.err = "OverflowError"
    /\ last.allocs = 0 /\ last.held = 0 /\ last.asked = {}
    /\ arr = NullArr /\ shelter = NullShelter /\ vec = NullVec

C10_Witness ==
  /\ last.op = "new_dyn_array" /\ last.err = "OverflowError"
  /\ last.n * last.sz > R_SSIZE_MAX /\ last.n <= R_SSIZE_MAX

\* C11 (as stated): the shelter is a root held by dyn-array.c itself, so no
\* collection between operations reclaims anything of an existing array.
C11_CodeRootsTheShelter ==
  Exists => reclaimed = {}

\* C11 (amended): dyn-array.c roots the shelter only during create; afterwards
\* the array is alive through the client's protection of p_arr->shelter, and
\* while the client keeps it, no collection between operations reclaims the
\* shelter, the control struct cell or the storage v_data points to.
C11_ClientRootKeepsArray ==
  (Exists /\ client_keeps) => (reclaimed = {} /\ Used \subseteq Reachable)

C11_Witness ==
  /\ Exists /\ client_keeps /\ proc = "running"
  /\ last.op = "collect" /\ vec.id = "vecB" /\ arr.count > 0

C13_CreateInitialisesStruct ==
  Returned("new_dyn_vector") =>
    /\ arr = [shelter |-> shelter.id, count |-> 0, capacity |-> last.n,
              growth_factor |-> 2, v_data |-> r_vec_deref0(vec),
              type |-> last.type,
              elt_byte_size |-> r_vec_elt_sizeof0(last.type)]
    /\ shelter.slot1 = vec.id /\ shelter.slot0 = "vec_raw"
    /\ vec.type = last.type /\ r_length(vec) = last.n

C13_Witness ==
  Returned("new_dyn_vector") /\ last.type = "integer" /\ last.n > 1

\* C14: r_new_dyn_array(elt_byte_size, capacity) without overflow yields a
\* backing storage of capacity * elt_byte_size bytes and a control struct
\* that records the given elt_byte_size and a capacity of `capacity`
\* elements.
C14_ByteArrayKeepsElementSize ==
  Returned("new_dyn_array") =>
    /\ Len(vec.data) = last.n * last.sz
    /\ arr.elt_byte_size = last.sz
    /\ arr.capacity = last.n

\* C15: the vector allocator is asked for `capacity` elements for a typed
\* array and for elt_byte_size * capacity bytes for a byte array, so after
\* every create or resize that returned the vector in slot 1 holds exactly
\* capacity elements of elt_byte_size bytes.
C15_BackingVectorMatchesCapacity ==
  (Returned("new_dyn_vector") \/ Returned("new_dyn_array") \/ Returned("resize")) =>
    /\ shelter.slot1 = vec.id
    /\ Len(vec.data) = arr.capacity * arr.elt_byte_size

\* C16: every element write of a push goes to index count - 1 with
\* 0 <= count - 1 < capacity inside the current backing vector; no write
\* lands outside the buffer.
C16_PushWritesInsideBuffer ==
  last.op = "push_back" => ~last.oob

\* C17: after every create, push or resize, v_data is the storage of the
\* vector currently in slot 1 of the shelter, never of a vector a resize has
\* replaced, and slot 0 holds the control struct cell.
C17_DataPointerFollowsSlot1 ==
  Exists =>
    /\ arr.v_data = r_vec_deref0(vec)
    /\ shelter.slot1 = vec.id
    /\ shelter.slot0 = "vec_raw"
    /\ arr.shelter = shelter.id

C17_Witness ==
  Returned("resize") /\ vec.id = "vecB" /\ arr.count > 0

\* C18: no push or resize changes type, elt_byte_size, growth_factor or the
\* shelter of an array; a push made while count < capacity changes only
\* count and the bytes of the slot it writes, and calls no allocator.
C18_PushResizeFrame ==
  [][last'.op \in {"push_back", "resize"} =>
       /\ arr'.type = arr.type
       /\ arr'.elt_byte_size = arr.elt_byte_size
       /\ arr'.growth_factor = arr.growth_factor
       /\ arr'.shelter = arr.shelter
       /\ shelter'.id = shelter.id
       /\ (last'.op = "push_back" /\ arr.count < arr.capacity) =>
            /\ arr' = [arr EXCEPT !.count = arr.count + 1]
            /\ shelter' = shelter
            /\ vec'.id = vec.id /\ vec'.type = vec.type
            /\ Len(vec'.data) = Len(vec.data)
            /\ last'.allocs = 0 /\ last'.asked = {}
            /\ \A i \in 1..Len(vec.data) :
                 (i <= arr.count * arr.elt_byte_size
                    \/ i > (arr.count + 1) * arr.elt_byte_size)
                 => vec'.data[i] = vec.data[i]]_vars

C18_Witness ==
  /\ Returned("push_back") /\ arr.count > 1 /\ arr.count < arr.capacity
  /\ last.allocs = 0 /\ arr.type = "integer"

\* C19 (as stated): every shelter built by create carries the class tag, in
\* any order of library initialisation and create calls.
C19_EveryShelterTagged ==
  Exists => shelter.attrib = "rlang_dyn_array"

\* C19 (amended): attribs_dyn_array is written only by library
\* initialisation; create, push and resize never modify it; a shelter
\* carries the value attribs_dyn_array had when create built it (the class
\* tag after initialisation, NULL before) and push and resize keep it.
C19_TagSetOnlyByInit ==
  [][/\ attribs_dyn_array' # attribs_dyn_array => last'.op = "init_library"
     /\ (last'.op \in {"new_dyn_vector", "new_dyn_array"} /\ last'.err = "none")
          => shelter'.attrib = attribs_dyn_array
     /\ last'.op \in {"push_back", "resize"} => shelter'.attrib = shelter.attrib
    ]_vars

C19_Witness ==
  /\ Returned("push_back") /\ shelter.attrib = "rlang_dyn_array"
  /\ attribs_dyn_array = "rlang_dyn_array" /\ arr.count > 0

\* C20: set_attr and set_class leave their argument x (and every other
\* object) as it was and return a distinct object that is a shallow copy of
\* x carrying the new attribute, with the protection of the copy released;
\* mut_attr, mut_class and mut_names change x itself and create no object.
C20_SetCopiesMutWritesInPlace ==
  [][/\ (sxp'.op \in {"set_attr", "set_class"} /\ sxp'.err = "none") =>
          /\ sxp'.ret # sxp'.x
          /\ sxp'.ret \in (1..Len(sxp'.heap)) \ (1..Len(sxp.heap))
          /\ \A i \in 1..Len(sxp.heap) : sxp'.heap[i] = sxp.heap[i]
          /\ sxp'.heap[sxp'.ret] =
               [sxp.heap[sxp'.x] EXCEPT ![sxp'.sym] = sxp'.attr]
          /\ pstack' = pstack
     /\ (sxp'.op \in {"mut_attr", "mut_class", "mut_names"}) =>
          /\ sxp'.heap = [sxp.heap EXCEPT ![sxp'.x][sxp'.sym] = sxp'.attr]
          /\ sxp'.ret = 0
          /\ pstack' = pstack
     /\ (sxp'.op = "set_class" \/ sxp'.op = "mut_class") => sxp'.sym = "class"
     /\ sxp'.op = "mut_names" => sxp'.sym = "names"
    ]_vars

C20_Witness ==
  /\ sxp.op = "set_class" /\ sxp.err = "none" /\ sxp.attr = "a"
  /\ sxp.heap[sxp.x]["names"] = "a" /\ sxp.heap[sxp.x]["class"] = "nil"
  /\ sxp.heap[sxp.ret]["class"] = "a"

====
